---- MODULE Spec2Model ----
(***************************************************************************)
(* Model of the weather-forecast web server (src/main.go).                 *)
(*                                                                         *)
(* One request is followed from the route table (http.ServeMux) through    *)
(* the handler it is dispatched to.  The /weather handler is cut at its    *)
(* blocking I/O: the geocoder call, the forecast call and the template     *)
(* file read.  What the outside world answers (upstream bodies, transport  *)
(* errors, file-system state) is drawn from bounded sets.                  *)
(*                                                                         *)
(* Requests share no state (the program has no package-level variables),   *)
(* so one request at a time is followed.                                   *)
(***************************************************************************)
EXTENDS Integers, Sequences, FiniteSets, TLC

\* ---------------------------------------------------------------- bounds
MaxLen == 2        \* longest hourly.time / hourly.temperature_2m array
MaxResults == 2    \* longest geocoder results array

\* ------------------------------------------------------------ input sets
\* A URL path is the sequence of segments that follow each "/":
\* "/" = <<"">>, "/weather" = <<"weather">>, "/weather/" = <<"weather", "">>.
PathRoot == <<"">>
PathWeather == <<"weather">>
Paths == {PathRoot, PathWeather, <<"bogus">>, <<"weather", "">>}

Cities == {"Paris", ""}

\* Coordinates in units of 1e-7 degree.
Coords == {[Latitude |-> 488566000, Longitude |-> 23522000],
           [Latitude |-> 407127837, Longitude |-> -740059413]}

Timestamps == {1700000000, 90000}

\* Temperatures in hundredths of a degree.  A value whose last digit is 5
\* is an exact rounding tie for %.1f only when the float64 is exact
\* (x.25, x.75); other such values are left out of the input set.
Temps == {1230, -4, 25}

\* Offset of the process's local time zone from UTC, in seconds.
TZOffsets == {0, 10800}

TransportErrors == {"dial tcp: i/o timeout"}

RECURSIVE SeqsUpTo(_, _)
SeqsUpTo(S, n) ==
    IF n = 0 THEN {<<>>}
    ELSE LET shorter == SeqsUpTo(S, n - 1)
         IN shorter \cup {Append(s, x) : s \in {q \in shorter : Len(q) = n - 1}, x \in S}

\* Bodies the geocoding service can answer with.
GeoBodies ==
    {[shape |-> "malformed", hasResults |-> FALSE, results |-> <<>>],
     [shape |-> "mistyped", hasResults |-> FALSE, results |-> <<>>],
     [shape |-> "object", hasResults |-> FALSE, results |-> <<>>]}
    \cup {[shape |-> "object", hasResults |-> TRUE, results |-> s] :
            s \in SeqsUpTo(Coords, MaxResults)}

GeoOutcomes ==
    {[kind |-> "neterr", cause |-> c, body |-> [shape |-> "malformed", hasResults |-> FALSE, results |-> <<>>]] :
        c \in TransportErrors}
    \cup {[kind |-> "body", cause |-> "", body |-> b] : b \in GeoBodies}

\* Bodies the weather service can answer with.
NoWeatherBody ==
    [shape |-> "malformed", hasHourly |-> FALSE, hasTime |-> FALSE,
     hasTemp |-> FALSE, time |-> <<>>, temp |-> <<>>]

WeatherBodies ==
    {NoWeatherBody,
     [NoWeatherBody EXCEPT !.shape = "mistyped"]}
    \cup {[shape |-> "object", hasHourly |-> h, hasTime |-> t, hasTemp |-> p,
           time |-> ts, temp |-> tp] :
            h \in BOOLEAN, t \in BOOLEAN, p \in BOOLEAN,
            ts \in SeqsUpTo(Timestamps, MaxLen), tp \in SeqsUpTo(Temps, MaxLen)}

\* an absent field carries no array; without "hourly" there is neither key
WellFormedWeatherBody(b) ==
    b.shape = "object" =>
        /\ (~b.hasHourly => ~b.hasTime /\ ~b.hasTemp)
        /\ (~b.hasTime => b.time = <<>>)
        /\ (~b.hasTemp => b.temp = <<>>)

WeatherOutcomes ==
    {[kind |-> k, cause |-> c, body |-> NoWeatherBody] :
        k \in {"neterr", "readerr"}, c \in TransportErrors}
    \cup {[kind |-> "body", cause |-> "", body |-> b] :
            b \in {x \in WeatherBodies : WellFormedWeatherBody(x)}}

IndexFileStates == {"ok", "unreadable"}
TemplateStates == {"ok", "unreadable", "execerr"}

\* ------------------------------------------------------------ net/http
StatusOK == 200
StatusNotFound == 404
StatusInternalServerError == 500

NoBody == [kind |-> "none"]
NoResp == [status |-> 0, ctype |-> "", body |-> NoBody]

\* http.Error: plain-text content type, the status, the message as body
httpError(msg, code) ==
    [status |-> code, ctype |-> "text/plain; charset=utf-8",
     body |-> [kind |-> "text", text |-> msg]]

\* http.NotFound
httpNotFound == httpError(<<"404 page not found">>, StatusNotFound)

\* main: the route table.  A pattern ending in "/" names a subtree.
Routes == {[pattern |-> PathRoot, handler |-> "home"],
           [pattern |-> PathWeather, handler |-> "handler"]}

IsSubtree(pattern) == pattern[Len(pattern)] = ""

PatternMatches(pattern, path) ==
    IF IsSubtree(pattern)
    THEN /\ Len(path) >= Len(pattern)
         /\ SubSeq(path, 1, Len(pattern) - 1) = SubSeq(pattern, 1, Len(pattern) - 1)
    ELSE path = pattern

\* Orders the patterns that match one path by their length as text: they
\* are all prefixes of the path, so more segments is longer, and "/a" is
\* shorter than "/a/".
PatternLen(pattern) ==
    IF IsSubtree(pattern) THEN 2 * Len(pattern) - 1 ELSE 2 * Len(pattern)

\* http.ServeMux: the longest matching pattern wins
ServeMux(path) ==
    LET matching == {r \in Routes : PatternMatches(r.pattern, path)}
    IN IF matching = {} THEN "notfound"
       ELSE (CHOOSE r \in matching :
                \A o \in matching : PatternLen(o.pattern) <= PatternLen(r.pattern)).handler

\* ---------------------------------------------------------------- errors
\* An error value is the sequence of the parts of its message, outermost
\* wrapper first; err.Error() is their concatenation.  Nil is <<>>.
Nil == <<>>
Errorf(prefix, err) == <<prefix>> \o err

\* ---------------------------------------------------------------- home
home(indexFile) ==
    IF indexFile # "ok"
    THEN httpError(<<"failed to open file">>, StatusInternalServerError)
    ELSE [status |-> StatusOK, ctype |-> "text/html",
          body |-> [kind |-> "file", name |-> "views/index.html"]]

\* ------------------------------------------------------------ getLatLong
GeoResponseZero == [Results |-> <<>>]
NoLatLong == [Latitude |-> 0, Longitude |-> 0]

\* json.NewDecoder(resp.Body).Decode(&response) into a GeoResponse: a body
\* that is not JSON or has the wrong types is an error, a missing key
\* leaves the field at its zero value
jsonDecodeGeo(body) ==
    CASE body.shape = "malformed" ->
            [val |-> GeoResponseZero, err |-> <<"invalid character">>]
      [] body.shape = "mistyped" ->
            [val |-> GeoResponseZero, err |-> <<"json: cannot unmarshal">>]
      [] OTHER ->
            [val |-> [Results |-> IF body.hasResults THEN body.results ELSE <<>>],
             err |-> Nil]

\* the geocoder request built from the city
geoEndpoint(city) == [name |-> city, count |-> 1, language |-> "ru", format |-> "json"]

\* variant: the last entry instead of the first
pickResult_last(results) == results[Len(results)]

\* which entry of a non-empty results list is returned
pickResult(results) == results[1]

getLatLong(o) ==
    IF o.kind = "neterr"
    THEN [val |-> NoLatLong,
          err |-> Errorf("error making request to Geo API: ", <<o.cause>>)]
    ELSE LET d == jsonDecodeGeo(o.body)
         IN IF d.err # Nil
            THEN [val |-> NoLatLong, err |-> Errorf("error decoding response: ", d.err)]
            ELSE IF Len(d.val.Results) < 1
            THEN [val |-> NoLatLong, err |-> <<"no results found">>]
            ELSE [val |-> pickResult(d.val.Results), err |-> Nil]

\* ------------------------------------------------------------ getWeather
Abs(x) == IF x < 0 THEN -x ELSE x

\* %.6f of a coordinate (1e-7 degree units), as a signed count of 1e-6 degree
Fmt6(x) ==
    LET m == (Abs(x) + 5) \div 10
    IN IF x < 0 THEN -m ELSE m

\* the forecast request built from the coordinate
weatherEndpoint(latLong) ==
    [latitude |-> Fmt6(latLong.Latitude), longitude |-> Fmt6(latLong.Longitude),
     hourly |-> "temperature_2m", timeformat |-> "unixtime"]

getWeather(o) ==
    CASE o.kind = "neterr" ->
            [val |-> NoWeatherBody,
             err |-> Errorf("error making request to Weather API: ", <<o.cause>>)]
      [] o.kind = "readerr" ->
            [val |-> NoWeatherBody,
             err |-> Errorf("error reading response body ", <<o.cause>>)]
      [] OTHER -> [val |-> o.body, err |-> Nil]

\* ---------------------------------------------------- extractWeatherData
WeatherResponseZero == [Time |-> <<>>, Temperature2m |-> <<>>]
WeatherDisplayZero == [City |-> "", Forecasts |-> <<>>]

\* json.Unmarshal into a WeatherResponse (the Hourly part; Latitude,
\* Longitude and Timezone are decoded and never read)
jsonUnmarshalWeather(raw) ==
    CASE raw.shape = "malformed" ->
            [val |-> WeatherResponseZero, err |-> <<"invalid character">>]
      [] raw.shape = "mistyped" ->
            [val |-> WeatherResponseZero, err |-> <<"json: cannot unmarshal">>]
      [] OTHER ->
            [val |-> [Time |-> IF raw.hasHourly /\ raw.hasTime THEN raw.time ELSE <<>>,
                      Temperature2m |-> IF raw.hasHourly /\ raw.hasTemp
                                        THEN raw.temp ELSE <<>>],
             err |-> Nil]

Weekdays == <<"Sun", "Mon", "Tue", "Wed", "Thu", "Fri", "Sat">>

\* time.Unix(t, 0).Format("Mon 15:04") in the zone at offset tzo;
\* 1970-01-01 was a Thursday
formatDate(t, tzo) ==
    LET local == t + tzo
        days == local \div 86400
        secs == local % 86400
    IN [wd |-> Weekdays[((days + 4) % 7) + 1],
        hh |-> secs \div 3600,
        mm |-> (secs % 3600) \div 60]

\* fmt.Sprintf("%.1f" + suffix, x), x in hundredths: round to the nearest
\* tenth, an exact tie to the even digit, the sign kept
formatTemp(h) ==
    LET a == Abs(h)
        q == a \div 10
        r == a % 10
        tenths == IF r > 5 THEN q + 1
                  ELSE IF r < 5 THEN q
                  ELSE IF q % 2 = 0 THEN q ELSE q + 1
    IN [neg |-> h < 0, whole |-> tenths \div 10, tenth |-> tenths % 10,
        suffix |-> "Â°C"]

\* variant: the temperature index stuck at the first element
makeForecast_firstTemp(hourly, i, tzo) ==
    [Date |-> formatDate(hourly.Time[i], tzo),
     Temperature |-> formatTemp(hourly.Temperature2m[1])]

\* the Forecast built in iteration i (1-based) of the loop
makeForecast(hourly, i, tzo) ==
    [Date |-> formatDate(hourly.Time[i], tzo),
     Temperature |-> formatTemp(hourly.Temperature2m[i])]

\* the range loop over Hourly.Time; indexing Temperature2m past its end
\* is a run-time panic
RECURSIVE forecastLoop(_, _, _, _)
forecastLoop(hourly, i, forecasts, tzo) ==
    IF i > Len(hourly.Time)
    THEN [panic |-> FALSE, forecasts |-> forecasts]
    ELSE IF i > Len(hourly.Temperature2m)
    THEN [panic |-> TRUE, forecasts |-> forecasts]
    ELSE forecastLoop(hourly, i + 1, Append(forecasts, makeForecast(hourly, i, tzo)), tzo)

extractWeatherData(city, rawWeather, tzo) ==
    LET d == jsonUnmarshalWeather(rawWeather)
    IN IF d.err # Nil
       THEN [outcome |-> "error", val |-> WeatherDisplayZero,
             err |-> Errorf("error decoding weather response: ", d.err)]
       ELSE LET l == forecastLoop(d.val, 1, <<>>, tzo)
            IN IF l.panic
               THEN [outcome |-> "panic", val |-> WeatherDisplayZero, err |-> Nil]
               ELSE [outcome |-> "ok",
                     val |-> [City |-> city, Forecasts |-> l.forecasts],
                     err |-> Nil]

\* ---------------------------------------------------------------- handler
\* variant: the geocoder branch surfaces err.Error() like the other two
handlerGeoResp_leak(r) ==
    IF r.err # Nil
    THEN httpError(r.err, StatusInternalServerError)
    ELSE NoResp

\* what the handler writes once getLatLong has returned r
handlerGeoResp(r) ==
    IF r.err # Nil
    THEN httpError(<<"internal server error">>, StatusInternalServerError)
    ELSE NoResp

\* variant: no return after the geocoder's http.Error
handlerWeatherCalls_noReturn(r) == <<r.val>>

\* the getWeather calls the handler makes once getLatLong has returned r
handlerWeatherCalls(r) ==
    IF r.err # Nil THEN <<>> ELSE <<r.val>>

\* what the handler writes once getWeather has returned w
handlerWeatherResp(w) ==
    IF w.err # Nil
    THEN httpError(w.err, StatusInternalServerError)
    ELSE NoResp

\* variant: the formatter's error dropped (data, _ := ...)
handlerExtractResp_dropErr(e) == NoResp

\* what the handler writes once extractWeatherData has returned e
handlerExtractResp(e) ==
    IF e.err # Nil
    THEN httpError(e.err, StatusInternalServerError)
    ELSE NoResp

\* template.ParseFiles with its error dropped, then tmpl.Execute(w, data)
\* with its error dropped: a nil template panics in Execute, a failing
\* Execute leaves what it wrote so far under the implicit 200
handlerRender(tmplFile, data) ==
    CASE tmplFile = "unreadable" -> [panic |-> TRUE, resp |-> NoResp]
      [] tmplFile = "execerr" ->
            [panic |-> FALSE,
             resp |-> [status |-> StatusOK, ctype |-> "sniffed",
                       body |-> [kind |-> "template", data |-> data, complete |-> FALSE]]]
      [] OTHER ->
            [panic |-> FALSE,
             resp |-> [status |-> StatusOK, ctype |-> "sniffed",
                       body |-> [kind |-> "template", data |-> data, complete |-> TRUE]]]

\* ---------------------------------------------------------- state
VARIABLES
    pc,            \* where the request is
    tz,            \* the process's local time zone offset
    req,           \* the request being served
    resp,          \* what was written to the ResponseWriter
    crashed,       \* the handler goroutine panicked
    geoCalls,      \* requests issued to the geocoding service
    weatherCalls,  \* requests issued to the weather service
    steps,         \* pipeline steps started, in order
    geoOut,        \* what the geocoding service answered
    geoRes,        \* what getLatLong returned
    weatherOut,    \* what the weather service answered
    weatherRes,    \* what getWeather returned
    fmtRes,        \* what extractWeatherData returned
    fileState      \* how the file the handler read (landing page, template) behaved

vars == <<pc, tz, req, resp, crashed, geoCalls, weatherCalls, steps,
          geoOut, geoRes, weatherOut, weatherRes, fmtRes, fileState>>

NoReq == [path |-> PathRoot, city |-> "", formOk |-> TRUE]
NoOutcome == [kind |-> "none"]
NoGeoRes == [called |-> FALSE, val |-> NoLatLong, err |-> Nil]
NoWeatherRes == [called |-> FALSE, val |-> NoWeatherBody, err |-> Nil]
NoFmtRes == [outcome |-> "none", val |-> WeatherDisplayZero, err |-> Nil]

Init ==
    /\ pc = "idle"
    /\ tz \in TZOffsets
    /\ req = NoReq
    /\ resp = NoResp
    /\ crashed = FALSE
    /\ geoCalls = <<>>
    /\ weatherCalls = <<>>
    /\ steps = <<>>
    /\ geoOut = NoOutcome
    /\ geoRes = NoGeoRes
    /\ weatherOut = NoOutcome
    /\ weatherRes = NoWeatherRes
    /\ fmtRes = NoFmtRes
    /\ fileState = "unread"

\* The server accepts a request and the route table picks the handler.
ServeHTTP(path, city, formOk) ==
    /\ pc \in {"idle", "done"}
    /\ req' = [path |-> path, city |-> city, formOk |-> formOk]
    /\ resp' = NoResp
    /\ crashed' = FALSE
    /\ geoCalls' = <<>>
    /\ weatherCalls' = <<>>
    /\ steps' = <<>>
    /\ geoOut' = NoOutcome
    /\ geoRes' = NoGeoRes
    /\ weatherOut' = NoOutcome
    /\ weatherRes' = NoWeatherRes
    /\ fmtRes' = NoFmtRes
    /\ fileState' = "unread"
    /\ pc' = ServeMux(path)
    /\ UNCHANGED tz

Home(indexFile) ==
    /\ pc = "home"
    /\ resp' = home(indexFile)
    /\ fileState' = indexFile
    /\ pc' = "done"
    /\ UNCHANGED <<tz, req, crashed, geoCalls, weatherCalls, steps,
                   geoOut, geoRes, weatherOut, weatherRes, fmtRes>>

\* handler up to the geocoder call: path check, ParseForm, FormValue,
\* and getLatLong up to its http.Get
HandlerEntry ==
    /\ pc = "handler"
    /\ IF req.path # PathWeather
       THEN /\ resp' = httpNotFound
            /\ pc' = "done"
            /\ UNCHANGED <<geoCalls, steps>>
       ELSE IF ~req.formOk
       THEN /\ resp' = httpError(<<"could not parse the form">>, StatusInternalServerError)
            /\ pc' = "done"
            /\ UNCHANGED <<geoCalls, steps>>
       ELSE /\ geoCalls' = Append(geoCalls, geoEndpoint(req.city))
            /\ steps' = Append(steps, "geocoder")
            /\ pc' = "geoWait"
            /\ UNCHANGED resp
    /\ UNCHANGED <<tz, req, crashed, weatherCalls,
                   geoOut, geoRes, weatherOut, weatherRes, fmtRes, fileState>>

\* the geocoder call completes with outcome o; getLatLong returns; the
\* handler answers or goes on to getWeather up to its http.Get
GeoReturn(o) ==
    /\ pc = "geoWait"
    /\ LET r == getLatLong(o)
           calls == handlerWeatherCalls(r)
       IN /\ geoOut' = o
          /\ geoRes' = [called |-> TRUE, val |-> r.val, err |-> r.err]
          /\ resp' = handlerGeoResp(r)
          /\ weatherCalls' = weatherCalls \o
                [i \in 1..Len(calls) |->
                    [latLong |-> calls[i], endpoint |-> weatherEndpoint(calls[i])]]
          /\ steps' = steps \o [i \in 1..Len(calls) |-> "forecast"]
          /\ pc' = IF resp' # NoResp THEN "done" ELSE "weatherWait"
    /\ UNCHANGED <<tz, req, crashed, geoCalls, weatherOut, weatherRes, fmtRes, fileState>>

\* the forecast call completes with outcome o; getWeather returns; the
\* handler answers, or runs extractWeatherData and answers or goes on to
\* read the template
WeatherReturn(o) ==
    /\ pc = "weatherWait"
    /\ LET w == getWeather(o)
           wresp == handlerWeatherResp(w)
           e == extractWeatherData(req.city, w.val, tz)
           eresp == handlerExtractResp(e)
       IN /\ weatherOut' = o
          /\ weatherRes' = [called |-> TRUE, val |-> w.val, err |-> w.err]
          /\ IF wresp # NoResp
             THEN /\ resp' = wresp
                  /\ pc' = "done"
                  /\ UNCHANGED <<fmtRes, steps, crashed>>
             ELSE /\ fmtRes' = e
                  /\ steps' = Append(steps, "formatter")
                  /\ IF e.outcome = "panic"
                     THEN /\ crashed' = TRUE
                          /\ pc' = "done"
                          /\ UNCHANGED resp
                     ELSE /\ resp' = eresp
                          /\ pc' = IF eresp # NoResp THEN "done" ELSE "render"
                          /\ UNCHANGED crashed
    /\ UNCHANGED <<tz, req, geoCalls, weatherCalls, geoOut, geoRes, fileState>>

\* the template file is read and executed against the formatted data
Render(tmplFile) ==
    /\ pc = "render"
    /\ LET t == handlerRender(tmplFile, fmtRes.val)
       IN /\ steps' = Append(steps, "template")
          /\ resp' = t.resp
          /\ crashed' = t.panic
          /\ fileState' = tmplFile
          /\ pc' = "done"
    /\ UNCHANGED <<tz, req, geoCalls, weatherCalls,
                   geoOut, geoRes, weatherOut, weatherRes, fmtRes>>

Next ==
    \/ \E p \in Paths, c \in Cities, f \in BOOLEAN : ServeHTTP(p, c, f)
    \/ \E i \in IndexFileStates : Home(i)
    \/ HandlerEntry
    \/ \E o \in GeoOutcomes : GeoReturn(o)
    \/ \E o \in WeatherOutcomes : WeatherReturn(o)
    \/ \E t \in TemplateStates : Render(t)

Spec == Init /\ [][Next]_vars

\* ================================================================ claims
GeoFailed == geoRes.called /\ geoRes.err # Nil
WeatherFailed == weatherRes.called /\ weatherRes.err # Nil
FormatterRan == fmtRes.outcome # "none"
FormatterFailed == fmtRes.outcome = "error"
TextPlain == "text/plain; charset=utf-8"
InSeq(x, sq) == \E i \in 1..Len(sq) : sq[i] = x
WeatherPayload == weatherRes.val

\* C1: whenever getLatLong, getWeather or extractWeatherData has returned an
\* error, the request is finished with status 500 and a text/plain body, the
\* pipeline stopped at the failing step, and the template step never started.
C1_FailureAnswers500 ==
    (GeoFailed \/ WeatherFailed \/ FormatterFailed) =>
        /\ pc = "done"
        /\ ~crashed
        /\ resp.status = 500
        /\ resp.ctype = TextPlain
        /\ resp.body.kind = "text"
        /\ ~InSeq("template", steps)
        /\ (GeoFailed => steps = <<"geocoder">> /\ weatherCalls = <<>>)
        /\ (WeatherFailed => steps = <<"geocoder", "forecast">> /\ ~FormatterRan)
        /\ (FormatterFailed => steps = <<"geocoder", "forecast", "formatter">>)

C1_Witness ==
    /\ FormatterFailed
    /\ WeatherPayload.shape = "malformed"
    /\ resp.status = 500

\* C2 (as claimed): a finished request for a path other than "/" and
\* "/weather" has status 404.
C2_UnknownPathNotFound ==
    (pc = "done" /\ req.path \notin {PathRoot, PathWeather}) => resp.status = 404

\* C3 (as claimed): when the decoded time and temperature_2m arrays differ
\* in length, extractWeatherData returns an error: no panic, no success.
C3_MismatchReturnsError ==
    (/\ FormatterRan
     /\ WeatherPayload.shape = "object"
     /\ Len(WeatherPayload.time) # Len(WeatherPayload.temp))
        => fmtRes.outcome = "error"

\* C4 (as claimed): a geocoder failure and a forecast-client failure both
\* give a body without any part of the underlying error text; a formatter
\* failure gives the error's message as the body.
C4_UpstreamFailuresGeneric ==
    /\ GeoFailed =>
         /\ resp.body.kind = "text"
         /\ \A i \in 1..Len(geoRes.err) : ~InSeq(geoRes.err[i], resp.body.text)
    /\ WeatherFailed =>
         /\ resp.body.kind = "text"
         /\ \A i \in 1..Len(weatherRes.err) : ~InSeq(weatherRes.err[i], resp.body.text)
    /\ FormatterFailed =>
         /\ resp.body.kind = "text"
         /\ resp.body.text = fmtRes.err

\* C4 (amended): a geocoder failure gives the fixed body "internal server
\* error", with no part of the underlying error text; a forecast-client
\* failure and a formatter failure each give the error's message as the body.
C4_OnlyGeocoderGeneric ==
    /\ GeoFailed =>
         /\ resp.body.kind = "text"
         /\ resp.body.text = <<"internal server error">>
         /\ \A i \in 1..Len(geoRes.err) : ~InSeq(geoRes.err[i], resp.body.text)
    /\ WeatherFailed =>
         /\ resp.body.kind = "text"
         /\ resp.body.text = weatherRes.err
         /\ InSeq(weatherOut.cause, resp.body.text)
    /\ FormatterFailed =>
         /\ resp.body.kind = "text"
         /\ resp.body.text = fmtRes.err

C4_Witness ==
    /\ WeatherFailed
    /\ weatherOut.kind = "neterr"
    /\ resp.body = [kind |-> "text",
                    text |-> <<"error making request to Weather API: ",
                               "dial tcp: i/o timeout">>]

\* C5: the steps of one request start in the order geocoder, forecast,
\* formatter, template, each at most once; at most one call goes to each
\* upstream; a forecast call exists only when getLatLong returned a
\* coordinate and carries that coordinate; the formatter runs only on a
\* payload getWeather returned.
Pipeline == <<"geocoder", "forecast", "formatter", "template">>

C5_SequentialPipeline ==
    /\ Len(steps) <= Len(Pipeline)
    /\ steps = SubSeq(Pipeline, 1, Len(steps))
    /\ Len(geoCalls) <= 1
    /\ Len(weatherCalls) <= 1
    /\ Len(geoCalls) = (IF InSeq("geocoder", steps) THEN 1 ELSE 0)
    /\ Len(weatherCalls) = (IF InSeq("forecast", steps) THEN 1 ELSE 0)
    /\ geoCalls # <<>> => geoCalls[1].name = req.city
    /\ weatherCalls # <<>> =>
         /\ geoRes.called
         /\ geoRes.err = Nil
         /\ geoOut.kind = "body"
         /\ weatherCalls[1].latLong = geoRes.val
    /\ FormatterRan =>
         /\ weatherRes.called
         /\ weatherRes.err = Nil
         /\ weatherOut.kind = "body"
         /\ WeatherPayload = weatherOut.body

C5_Witness ==
    /\ pc = "done"
    /\ steps = Pipeline
    /\ resp.status = 200
    /\ weatherCalls[1].latLong = [Latitude |-> 407127837, Longitude |-> -740059413]
    /\ weatherCalls[1].endpoint.longitude = -74005941

\* C6: for a payload whose time and temperature_2m arrays have the same
\* length n, extractWeatherData succeeds with the city and exactly n
\* entries, entry i made of the i-th timestamp and the i-th temperature;
\* n = 0 gives zero entries and no error.
C6_EqualLengthsFormatted ==
    (/\ FormatterRan
     /\ WeatherPayload.shape = "object"
     /\ Len(WeatherPayload.time) = Len(WeatherPayload.temp))
        => /\ fmtRes.outcome = "ok"
           /\ fmtRes.err = Nil
           /\ fmtRes.val.City = req.city
           /\ Len(fmtRes.val.Forecasts) = Len(WeatherPayload.time)
           /\ \A i \in 1..Len(WeatherPayload.time) :
                /\ fmtRes.val.Forecasts[i].Date = formatDate(WeatherPayload.time[i], tz)
                /\ fmtRes.val.Forecasts[i].Temperature = formatTemp(WeatherPayload.temp[i])
                /\ (WeatherPayload.time[i] = 1700000000 /\ tz = 0 =>
                      fmtRes.val.Forecasts[i].Date = [wd |-> "Tue", hh |-> 22, mm |-> 13])
                /\ (WeatherPayload.temp[i] = 1230 =>
                      fmtRes.val.Forecasts[i].Temperature =
                          [neg |-> FALSE, whole |-> 12, tenth |-> 3, suffix |-> "Â°C"])

C6_Witness ==
    /\ fmtRes.outcome = "ok"
    /\ WeatherPayload.time = <<90000, 1700000000>>
    /\ WeatherPayload.temp = <<-4, 1230>>
    /\ tz = 10800
    /\ fmtRes.val.Forecasts[1].Date = [wd |-> "Fri", hh |-> 4, mm |-> 0]
    /\ fmtRes.val.Forecasts[1].Temperature.neg

\* C7 (as claimed): for a payload that is not JSON, or is JSON without
\* "hourly", "hourly.time" or "hourly.temperature_2m", extractWeatherData
\* returns the decode error and never a result.
C7_MissingFieldsDecodeError ==
    (/\ FormatterRan
     /\ \/ WeatherPayload.shape = "malformed"
        \/ /\ WeatherPayload.shape = "object"
           /\ ~(WeatherPayload.hasHourly /\ WeatherPayload.hasTime /\ WeatherPayload.hasTemp))
        => /\ fmtRes.outcome = "error"
           /\ fmtRes.err # Nil
           /\ fmtRes.err[1] = "error decoding weather response: "

\* C8: when the geocoder body decodes to a non-empty results list,
\* getLatLong returns its first entry and no error; when it decodes to an
\* empty list, getLatLong returns "no results found" and no coordinate, and
\* no forecast call is made.
DecodedResults ==
    IF geoOut.body.hasResults THEN geoOut.body.results ELSE <<>>

C8_FirstResultOrNotFound ==
    (geoRes.called /\ geoOut.kind = "body" /\ geoOut.body.shape = "object") =>
        IF Len(DecodedResults) >= 1
        THEN /\ geoRes.err = Nil
             /\ geoRes.val = DecodedResults[1]
        ELSE /\ geoRes.err = <<"no results found">>
             /\ geoRes.val = NoLatLong
             /\ weatherCalls = <<>>
             /\ ~weatherRes.called
             /\ pc = "done"

C8_Witness ==
    /\ geoRes.called
    /\ geoOut.kind = "body"
    /\ Len(geoOut.body.results) = 2
    /\ geoOut.body.results[1] # geoOut.body.results[2]
    /\ geoRes.val = geoOut.body.results[1]
    /\ weatherCalls # <<>>

\* C9 (as claimed): a malformed body from either upstream ends the request
\* with status 500 on a decode error, and no request ends with a panic in
\* place of a written response.
C9_MalformedIs500NeverCrash ==
    /\ (geoRes.called /\ geoOut.kind = "body" /\ geoOut.body.shape = "malformed") =>
         /\ resp.status = 500
         /\ geoRes.err[1] = "error decoding response: "
    /\ (FormatterRan /\ WeatherPayload.shape = "malformed") =>
         /\ resp.status = 500
         /\ resp.body.text[1] = "error decoding weather response: "
    /\ pc = "done" => ~crashed /\ resp # NoResp

\* C10 (as claimed): an unreadable landing file gives 500 on "/", and a
\* weather template that cannot be read or executed gives 500 on "/weather".
C10_FileErrorIs500 ==
    (pc = "done" /\ fileState \in {"unreadable", "execerr"}) =>
        /\ ~crashed
        /\ resp.status = 500
====
